---- MODULE Spec2Model ----
(***************************************************************************)
(* Model of src/src/index.ts: ActiveTable (table over a sheet),            *)
(* ActiveTableRowArray (row collection) and ActiveTableRow (row).          *)
(*                                                                         *)
(* The sheet is the grid of cell values, row 1 being the header.  A cell   *)
(* value is a record [t, s, n]: t is the JavaScript type of the value, s   *)
(* its text when it is a string, n its number (or instant, for a Date).    *)
(***************************************************************************)
EXTENDS Integers, Sequences, FiniteSets, TLC

VARIABLES sheet,      \* the grid of the sheet: sheet[1] is the header row
          writes,     \* how many create/save/update/delete/updateAll/
                      \* deleteAll calls the caller has made
          table,      \* the ActiveTable the caller holds, if any: its attributes
                      \* and the checkUnique it was built with
          coll,       \* the ActiveTableRowArray the caller holds
          row,        \* the single ActiveTableRow the caller holds
          ops,        \* sheet calls issued by the last operation, in order
          last        \* the last operation called, its inputs and outcome

vars == <<sheet, writes, table, coll, row, ops, last>>

(***************************************************************************)
(* Bounds                                                                  *)
(***************************************************************************)
MaxWrites == 2        \* the caller makes at most this many mutating calls

(***************************************************************************)
(* Cell values                                                             *)
(***************************************************************************)
Str(s)  == [t |-> "str",   s |-> s,  n |-> 0]
Num(n)  == [t |-> "num",   s |-> "", n |-> n]
Date(n) == [t |-> "date",  s |-> "", n |-> n]
Null    == [t |-> "null",  s |-> "", n |-> 0]
Undef   == [t |-> "undef", s |-> "", n |-> 0]
Empty   == Str("")

\* a ?? '' of create and #updateRow
OrEmpty(v) == IF v.t \in {"null", "undef"} THEN Empty ELSE v

\* a === b for two values that are not the same object: getValues() builds a
\* new Date object for every date cell, and two objects are === only when
\* they are the same object
StrictEq(a, b) == a = b /\ a.t # "date"

\* the names a row object is given fields under
FieldNames == {"id", "name", "zz"}

NoFields == [k \in FieldNames |-> Undef]

(***************************************************************************)
(* The sheet (GoogleAppsScript.Spreadsheet.Sheet), as the code uses it     *)
(***************************************************************************)
\* sheet.getDataRange().getValues()
GetValues(sh) == sh

\* sheet.appendRow(values)
AppendRow(sh, values) == Append(sh, values)

\* sheet.deleteRow(p): the rows after p move up by one
DeleteRow(sh, p) ==
    IF p \in 1..Len(sh)
    THEN [i \in 1..(Len(sh) - 1) |-> IF i < p THEN sh[i] ELSE sh[i + 1]]
    ELSE sh

\* sheet.getRange(p, 1, 1, n).setValues([values]); a write below the data
\* range extends the data range down to row p
SetValues(sh, p, values) ==
    [i \in 1..(IF p > Len(sh) THEN p ELSE Len(sh)) |->
        IF i = p THEN values
        ELSE IF i <= Len(sh) THEN sh[i]
        ELSE [c \in 1..Len(values) |-> Empty]]

\* the calls on the sheet that change it, as recorded in ops
OpAppend(values)       == [op |-> "appendRow", at |-> 0]
OpDelete(p)            == [op |-> "deleteRow", at |-> p]
OpSetValues(p, values) == [op |-> "setValues", at |-> p]

(***************************************************************************)
(* ActiveTableRow                                                          *)
(***************************************************************************)
\* rowNumber 0 stands for null
NullRowNumber == 0

IsPersisted(r) == r.rowNumber # NullRowNumber

(***************************************************************************)
(* ActiveTable                                                             *)
(***************************************************************************)
\* this.attributes = headers.map((name, index) => ({column: index + 1, name}))
Attributes(headers) ==
    [i \in 1..Len(headers) |-> [column |-> i, name |-> headers[i].s]]

\* new Set(rows.map(row => row[0])).size: a Set holds a string once however
\* often it is added, and every Date object of getValues() on its own
SetSize(keys) ==
    Cardinality({keys[i] : i \in {j \in 1..Len(keys) : keys[j].t # "date"}})
    + Cardinality({j \in 1..Len(keys) : keys[j].t = "date"})

\* the checkUnique test of the constructor: TRUE when it throws
HasDuplicates(sh) ==
    LET rows == Tail(GetValues(sh))
        keys == [i \in 1..Len(rows) |-> rows[i][1]]
    IN  SetSize(keys) # Len(rows)

\* attributes.forEach(attr => lazyRow[attr.name] = row[attr.column - 1]),
\* the first k attributes done
RECURSIVE AssignFields(_, _, _)
AssignFields(attrs, cells, k) ==
    IF k = 0 THEN NoFields
    ELSE [AssignFields(attrs, cells, k - 1)
            EXCEPT ![attrs[k].name] = cells[attrs[k].column]]

\* #rows() numbering the data rows from 1, the header row not counted
RowsFromOne(sh, attrs) ==
    LET rows == Tail(GetValues(sh))
    IN  [i \in 1..Len(rows) |->
            [rowNumber |-> i,
             f |-> AssignFields(attrs, rows[i], Len(attrs))]]

\* #rows(): one row object per data row of the sheet as it is now
Rows(sh, attrs) ==
    LET rows == Tail(GetValues(sh))
    IN  [i \in 1..Len(rows) |->
            [rowNumber |-> i + 1,
             f |-> AssignFields(attrs, rows[i], Len(attrs))]]

\* this.attributes.map(attr => obj[attr.name])
RowValuesAsGiven(attrs, obj) ==
    [i \in 1..Len(attrs) |-> obj[attrs[i].name]]

\* this.attributes.map(attr => obj[attr.name] ?? '')
RowValues(attrs, obj) ==
    [i \in 1..Len(attrs) |-> OrEmpty(obj[attrs[i].name])]

\* the cell cellOf resolved, when it resolved none
NoCell == <<0, 0>>

\* this.attributes.find(attr => attr.name === key)?.column ?? 0
ColumnOf(attrs, key) ==
    LET named == {i \in 1..Len(attrs) : attrs[i].name = key}
    IN  IF named = {} THEN 0
        ELSE attrs[CHOOSE i \in named : \A j \in named : i <= j].column

\* #cellOf(index, key): the row and the column of the range it asks the
\* sheet for
TableCellOf(attrs, index, key) == <<index, ColumnOf(attrs, key)>>

\* cellOf(key) without the test of the row number
RowCellOfUnguarded(r, key, attrs) ==
    [res |-> "ok", cell |-> TableCellOf(attrs, r.rowNumber, key)]

\* cellOf(key) of a row: what it throws or returns
RowCellOf(r, key, attrs) ==
    IF r.rowNumber = NullRowNumber
    THEN [res |-> "StateError", cell |-> NoCell]
    ELSE [res |-> "ok", cell |-> TableCellOf(attrs, r.rowNumber, key)]

(***************************************************************************)
(* ActiveTableRow methods: each gives the row, the sheet and the sheet     *)
(* calls it issued                                                         *)
(***************************************************************************)
Outcome(r, sh, log) == [row |-> r, sheet |-> sh, ops |-> log]

\* create(obj) that appends nothing when the first column already holds the
\* value of the new row
TableCreateUnlessPresent(sh, attrs, obj) ==
    LET values == RowValues(attrs, obj)
    IN  IF \E i \in 2..Len(sh) : sh[i][1] = values[1]
        THEN [sheet |-> sh, ops |-> <<>>]
        ELSE [sheet |-> AppendRow(sh, values), ops |-> <<OpAppend(values)>>]

\* create(obj), also the addRow of TableOperable
TableCreate(sh, attrs, obj) ==
    LET values == RowValues(attrs, obj)
    IN  [sheet |-> AppendRow(sh, values), ops |-> <<OpAppend(values)>>]

\* #deleteRow(rowNumber)
TableDeleteRow(sh, rowNumber) ==
    [sheet |-> DeleteRow(sh, rowNumber), ops |-> <<OpDelete(rowNumber)>>]

\* #updateRow(index, row)
TableUpdateRow(sh, attrs, index, r) ==
    LET values == RowValues(attrs, r.f)
    IN  [sheet |-> SetValues(sh, index, values),
         ops |-> <<OpSetValues(index, values)>>]

\* save() that takes the appended row's number as the row number
RowSaveAdopts(r, sh, attrs) ==
    IF r.rowNumber = NullRowNumber
    THEN LET w == TableCreate(sh, attrs, r.f)
         IN  Outcome([r EXCEPT !.rowNumber = Len(w.sheet)], w.sheet, w.ops)
    ELSE LET w == TableUpdateRow(sh, attrs, r.rowNumber, r)
         IN  Outcome(r, w.sheet, w.ops)

\* save()
RowSave(r, sh, attrs) ==
    IF r.rowNumber = NullRowNumber
    THEN LET w == TableCreate(sh, attrs, r.f) IN Outcome(r, w.sheet, w.ops)
    ELSE LET w == TableUpdateRow(sh, attrs, r.rowNumber, r)
         IN  Outcome(r, w.sheet, w.ops)

\* delete() that leaves the row number as it is
RowDeleteKeepsNumber(r, sh) ==
    IF r.rowNumber # NullRowNumber
    THEN LET w == TableDeleteRow(sh, r.rowNumber)
         IN  Outcome(r, w.sheet, w.ops)
    ELSE Outcome(r, sh, <<>>)

\* delete()
RowDelete(r, sh) ==
    LET gone == [r EXCEPT !.rowNumber = NullRowNumber]
    IN  IF r.rowNumber # NullRowNumber
        THEN LET w == TableDeleteRow(sh, r.rowNumber)
             IN  Outcome(gone, w.sheet, w.ops)
        ELSE Outcome(gone, sh, <<>>)

\* the merge of update(obj) that keeps a field the row already has
MergeKeepsOld(f, obj) ==
    [k \in FieldNames |-> IF f[k] # Undef THEN f[k] ELSE obj[k]]

\* Object.entries(obj).forEach(([key, value]) => (this[key] = value))
Merge(f, obj) ==
    [k \in FieldNames |-> IF obj[k] # Undef THEN obj[k] ELSE f[k]]

\* update(obj) that writes whether or not the row has a row number
RowUpdateUnguarded(r, obj, sh, attrs) ==
    LET merged == [r EXCEPT !.f = Merge(r.f, obj)]
        w == TableUpdateRow(sh, attrs, r.rowNumber, merged)
    IN  Outcome(merged, w.sheet, w.ops)

\* update(obj)
RowUpdate(r, obj, sh, attrs) ==
    LET merged == [r EXCEPT !.f = Merge(r.f, obj)]
    IN  IF r.rowNumber # NullRowNumber
        THEN LET w == TableUpdateRow(sh, attrs, r.rowNumber, merged)
             IN  Outcome(merged, w.sheet, w.ops)
        ELSE Outcome(merged, sh, <<>>)

(***************************************************************************)
(* ActiveTableRowArray                                                     *)
(***************************************************************************)
\* the order of strings under < and >
StrOrder == <<"", "a", "b", "c">>
StrRank(s) == CHOOSE i \in 1..Len(StrOrder) : StrOrder[i] = s

\* ToNumber gives NaN for undefined and for a text that is no number; it
\* gives 0 for null and '', and the instant for a Date
IsNaN(v) == v.t = "undef" \/ (v.t = "str" /\ v.s # "")

\* a <= b of JavaScript
LessOrEqual(a, b) ==
    IF a.t = "str" /\ b.t = "str"
    THEN StrRank(a.s) <= StrRank(b.s)
    ELSE ~IsNaN(a) /\ ~IsNaN(b) /\ a.n <= b.n

\* a < b of JavaScript
Less(a, b) ==
    IF a.t = "str" /\ b.t = "str"
    THEN StrRank(a.s) < StrRank(b.s)
    ELSE ~IsNaN(a) /\ ~IsNaN(b) /\ a.n < b.n

\* the keys of a criteria object
Keys(obj) == {k \in FieldNames : obj[k] # Undef}

\* the test of where(obj) without the comparison of two dates by getTime()
WhereMatchIdentity(r, obj) ==
    \A k \in Keys(obj) : StrictEq(r.f[k], obj[k])

\* the test of where(obj) on one row
WhereMatch(r, obj) ==
    \A k \in Keys(obj) :
        IF obj[k].t = "date" /\ r.f[k].t = "date"
        THEN obj[k].n = r.f[k].n
        ELSE StrictEq(r.f[k], obj[k])

\* the test of after(obj) on one row
AfterMatch(r, obj) == \A k \in Keys(obj) : Less(obj[k], r.f[k])

\* the test of before(obj) without the exclusion of null and ''
BeforeMatchCompareOnly(r, obj) ==
    \A k \in Keys(obj) : Less(r.f[k], obj[k])

\* the test of before(obj) on one row
BeforeMatch(r, obj) ==
    \A k \in Keys(obj) :
        /\ r.f[k] # Null
        /\ r.f[k] # Empty
        /\ Less(r.f[k], obj[k])

\* where(obj): this.filter(...) with the test of where
Where(c, obj)  == SelectSeq(c, LAMBDA r : WhereMatch(r, obj))

\* after(obj): this.filter(...) with the test of after
After(c, obj)  == SelectSeq(c, LAMBDA r : AfterMatch(r, obj))

\* before(obj): this.filter(...) with the test of before
Before(c, obj) == SelectSeq(c, LAMBDA r : BeforeMatch(r, obj))

\* a call of where(obj), after(obj) or before(obj) on the array c: the array
\* afterwards and the array returned
CollWhereCall(c, obj)  == [coll |-> c, out |-> Where(c, obj)]

CollAfterCall(c, obj)  == [coll |-> c, out |-> After(c, obj)]

\* before(obj) that removes from the array what it does not return
CollBeforeCallInPlace(c, obj) ==
    [coll |-> Before(c, obj), out |-> Before(c, obj)]

CollBeforeCall(c, obj) == [coll |-> c, out |-> Before(c, obj)]

\* Array.prototype.reverse, which reverses the array itself
Reverse(c) == [i \in 1..Len(c) |-> c[Len(c) + 1 - i]]

\* forEach(row => row.delete()) from member k on
RECURSIVE ForEachDelete(_, _, _, _)
ForEachDelete(c, k, sh, log) ==
    IF k > Len(c) THEN [coll |-> c, sheet |-> sh, ops |-> log]
    ELSE LET o == RowDelete(c[k], sh)
         IN  ForEachDelete([c EXCEPT ![k] = o.row], k + 1, o.sheet,
                           log \o o.ops)

\* deleteAll() looping over the array as it stands
CollDeleteAllForward(c, sh) == ForEachDelete(c, 1, sh, <<>>)

\* deleteAll()
CollDeleteAll(c, sh) == ForEachDelete(Reverse(c), 1, sh, <<>>)

\* forEach(row => row.update(obj)) from member k on
RECURSIVE ForEachUpdate(_, _, _, _, _, _)
ForEachUpdate(c, k, obj, sh, attrs, log) ==
    IF k > Len(c) THEN [coll |-> c, sheet |-> sh, ops |-> log]
    ELSE LET o == RowUpdate(c[k], obj, sh, attrs)
         IN  ForEachUpdate([c EXCEPT ![k] = o.row], k + 1, obj, o.sheet,
                           attrs, log \o o.ops)

\* updateAll(obj) that numbers the members as the rows of the sheet
CollUpdateAllRenumbering(c, obj, sh, attrs) ==
    LET o == ForEachUpdate(c, 1, obj, sh, attrs, <<>>)
    IN  [o EXCEPT !.coll = [i \in 1..Len(c) |->
                              [o.coll[i] EXCEPT !.rowNumber = i + 1]]]

\* updateAll(obj)
CollUpdateAll(c, obj, sh, attrs) == ForEachUpdate(c, 1, obj, sh, attrs, <<>>)

(***************************************************************************)
(* Inputs                                                                  *)
(***************************************************************************)
\* the sheets the program may start with: no data row; distinct keys; a key
\* twice, around another key; the same date as key twice; and under the
\* header with one name twice, rows whose two cells differ
Sheets ==
    { << <<Str("id"), Str("name")>> >>,
      << <<Str("id"), Str("name")>>,
         <<Str("a"), Str("a")>>, <<Str("b"), Empty>> >>,
      << <<Str("id"), Str("name")>>,
         <<Str("a"), Str("a")>>, <<Str("b"), Empty>>, <<Str("a"), Empty>> >>,
      << <<Str("id"), Str("name")>>,
         <<Date(1), Str("a")>>, <<Date(1), Empty>> >>,
      << <<Str("id"), Str("id")>>,
         <<Str("a"), Str("b")>>, <<Str("b"), Str("a")>> >> }

\* objects passed to create: a key alone, and a key with a null and a key
\* that is no column
CreateObjs == { [NoFields EXCEPT !["id"] = Str("a")],
                [NoFields EXCEPT !["id"] = Str("b"), !["name"] = Null,
                                 !["zz"] = Str("a")] }

\* objects passed to update and updateAll
UpdateObjs == { [NoFields EXCEPT !["id"] = Str("a")],
                [NoFields EXCEPT !["id"] = Str("b"), !["name"] = Null] }

\* criteria passed to where, after and before
Criteria == { NoFields,
              [NoFields EXCEPT !["id"] = Str("a")],
              [NoFields EXCEPT !["name"] = Empty] }

\* ids passed to find
Ids == { Str("a"), Str("b") }

SheetNames == { "Users", "Ghost" }
ExistingSheet == "Users"

(***************************************************************************)
(* State                                                                   *)
(***************************************************************************)
NoTable == [exists |-> FALSE, checkUnique |-> FALSE, attributes |-> <<>>]

Called(op) == [op |-> op, res |-> "ok", cell |-> NoCell, out |-> <<>>]

Init ==
    /\ sheet \in Sheets
    /\ writes = 0
    /\ table = NoTable
    /\ coll = <<>>
    /\ row = <<>>
    /\ ops = <<>>
    /\ last = Called("init")

(***************************************************************************)
(* Operations of ActiveTable                                               *)
(***************************************************************************)
\* ActiveTable.bySheetName(sheetName, checkUnique)
BySheetName(name, cu) ==
    /\ \/ /\ name # ExistingSheet
          /\ last' = [Called("bySheetName") EXCEPT !.res = "SheetNotFound"]
          /\ table' = table
       \/ /\ name = ExistingSheet
          /\ cu /\ HasDuplicates(sheet)
          /\ last' = [Called("bySheetName") EXCEPT !.res = "DuplicateKey"]
          /\ table' = table
       \/ /\ name = ExistingSheet
          /\ ~(cu /\ HasDuplicates(sheet))
          /\ last' = Called("bySheetName")
          /\ table' = [exists |-> TRUE, checkUnique |-> cu,
                       attributes |-> Attributes(Head(GetValues(sheet)))]
    /\ ops' = <<>>
    /\ UNCHANGED <<sheet, writes, coll, row>>

\* all()
All ==
    /\ table.exists
    /\ coll' = Rows(sheet, table.attributes)
    /\ ops' = <<>>
    /\ last' = Called("all")
    /\ UNCHANGED <<sheet, writes, table, row>>

\* where(obj) of the table
TableWhere(obj) ==
    /\ table.exists
    /\ coll' = Where(Rows(sheet, table.attributes), obj)
    /\ ops' = <<>>
    /\ last' = Called("where")
    /\ UNCHANGED <<sheet, writes, table, row>>

\* after(obj) of the table
TableAfter(obj) ==
    /\ table.exists
    /\ coll' = After(Rows(sheet, table.attributes), obj)
    /\ ops' = <<>>
    /\ last' = Called("after")
    /\ UNCHANGED <<sheet, writes, table, row>>

\* before(obj) of the table
TableBefore(obj) ==
    /\ table.exists
    /\ coll' = Before(Rows(sheet, table.attributes), obj)
    /\ ops' = <<>>
    /\ last' = Called("before")
    /\ UNCHANGED <<sheet, writes, table, row>>

\* the rows find(id) is left with after its filter
FindMatches(sh, attrs, id) ==
    SelectSeq(Rows(sh, attrs), LAMBDA r : StrictEq(r.f[attrs[1].name], id))

\* find(id)
Find(id) ==
    /\ table.exists
    /\ LET rows == FindMatches(sheet, table.attributes, id)
       IN  \/ /\ Len(rows) > 1
              /\ last' = [Called("find") EXCEPT !.res = "Ambiguous"]
              /\ row' = row
           \/ /\ Len(rows) = 0
              /\ last' = [Called("find") EXCEPT !.res = "NotFound"]
              /\ row' = row
           \/ /\ Len(rows) = 1
              /\ last' = Called("find")
              /\ row' = <<rows[1]>>
    /\ ops' = <<>>
    /\ UNCHANGED <<sheet, writes, table, coll>>

\* create(obj)
Create(obj) ==
    /\ table.exists
    /\ writes < MaxWrites
    /\ writes' = writes + 1
    /\ LET w == TableCreate(sheet, table.attributes, obj)
       IN  /\ sheet' = w.sheet
           /\ ops' = w.ops
    /\ last' = Called("create")
    /\ UNCHANGED <<table, coll, row>>

(***************************************************************************)
(* Operations of ActiveTableRowArray, on the collection the caller holds   *)
(***************************************************************************)
\* where(obj) of the collection
CollWhere(obj) ==
    /\ coll # <<>>
    /\ coll' = Where(coll, obj)
    /\ ops' = <<>>
    /\ last' = Called("coll.where")
    /\ UNCHANGED <<sheet, writes, table, row>>

\* after(obj) of the collection
CollAfter(obj) ==
    /\ coll # <<>>
    /\ coll' = After(coll, obj)
    /\ ops' = <<>>
    /\ last' = Called("coll.after")
    /\ UNCHANGED <<sheet, writes, table, row>>

\* before(obj) of the collection
CollBefore(obj) ==
    /\ coll # <<>>
    /\ coll' = Before(coll, obj)
    /\ ops' = <<>>
    /\ last' = Called("coll.before")
    /\ UNCHANGED <<sheet, writes, table, row>>

\* deleteAll()
(***************************************************************************)
(* A batch call during which the sheet throws.  The call of the sheet made *)
(* for member n of the processing order throws and leaves the sheet as it  *)
(* is; forEach has no handler, so the loop ends there and the exception    *)
(* reaches the caller of deleteAll() or updateAll().                       *)
(***************************************************************************)
\* deleteAll() that goes on with the next member when deleteRow throws
CollDeleteAllSkipping(c, sh, n) ==
    LET rev  == Reverse(c)
        done == ForEachDelete(SubSeq(rev, 1, n - 1), 1, sh, <<>>)
        rest == ForEachDelete(SubSeq(rev, n + 1, Len(rev)), 1, done.sheet,
                              done.ops)
    IN  [coll |-> done.coll \o <<rev[n]>> \o rest.coll,
         sheet |-> rest.sheet, ops |-> rest.ops]

\* deleteAll() when deleteRow throws for member n of the reversed array:
\* reverse() has been done, the members before n are deleted, member n has
\* not reached the assignment of null, the members after n are not visited
CollDeleteAllFailing(c, sh, n) ==
    LET rev  == Reverse(c)
        done == ForEachDelete(SubSeq(rev, 1, n - 1), 1, sh, <<>>)
    IN  [coll |-> done.coll \o SubSeq(rev, n, Len(rev)),
         sheet |-> done.sheet, ops |-> done.ops]

\* updateAll(obj) when setValues throws for member n: the members before n
\* are updated, member n has taken the values of obj, the members after n
\* are not visited
CollUpdateAllFailing(c, obj, sh, attrs, n) ==
    LET done == ForEachUpdate(SubSeq(c, 1, n - 1), 1, obj, sh, attrs, <<>>)
        hit  == [c[n] EXCEPT !.f = Merge(c[n].f, obj)]
    IN  [coll |-> done.coll \o <<hit>> \o SubSeq(c, n + 1, Len(c)),
         sheet |-> done.sheet, ops |-> done.ops]

\* deleteAll(), the sheet throwing at member n of the reversed array
DeleteAllFails(n) ==
    /\ table.exists
    /\ writes < MaxWrites
    /\ n \in 1..Len(coll)
    /\ IsPersisted(Reverse(coll)[n])
    /\ writes' = writes + 1
    /\ LET o == CollDeleteAllFailing(coll, sheet, n)
       IN  /\ coll' = o.coll
           /\ sheet' = o.sheet
           /\ ops' = o.ops
    /\ last' = [Called("deleteAll") EXCEPT !.res = "StoreError"]
    /\ UNCHANGED <<table, row>>

\* updateAll(obj), the sheet throwing at member n
UpdateAllFails(obj, n) ==
    /\ table.exists
    /\ writes < MaxWrites
    /\ n \in 1..Len(coll)
    /\ IsPersisted(coll[n])
    /\ writes' = writes + 1
    /\ LET o == CollUpdateAllFailing(coll, obj, sheet, table.attributes, n)
       IN  /\ coll' = o.coll
           /\ sheet' = o.sheet
           /\ ops' = o.ops
    /\ last' = [Called("updateAll") EXCEPT !.res = "StoreError"]
    /\ UNCHANGED <<table, row>>

\* deleteAll()
DeleteAll ==
    /\ table.exists
    /\ writes < MaxWrites
    /\ writes' = writes + 1
    /\ LET o == CollDeleteAll(coll, sheet)
       IN  /\ coll' = o.coll
           /\ sheet' = o.sheet
           /\ ops' = o.ops
    /\ last' = Called("deleteAll")
    /\ UNCHANGED <<table, row>>

\* updateAll(obj)
UpdateAll(obj) ==
    /\ table.exists
    /\ writes < MaxWrites
    /\ writes' = writes + 1
    /\ LET o == CollUpdateAll(coll, obj, sheet, table.attributes)
       IN  /\ coll' = o.coll
           /\ sheet' = o.sheet
           /\ ops' = o.ops
    /\ last' = Called("updateAll")
    /\ UNCHANGED <<table, row>>

(***************************************************************************)
(* Operations of ActiveTableRow, on the row the caller holds (target 0)    *)
(* or on member t of the collection the caller holds                       *)
(***************************************************************************)
Held(t) == IF t = 0 THEN Len(row) = 1 ELSE t \in 1..Len(coll)

Target(t) == IF t = 0 THEN row[1] ELSE coll[t]

Put(t, r) ==
    IF t = 0 THEN row' = <<r>> /\ coll' = coll
    ELSE coll' = [coll EXCEPT ![t] = r] /\ row' = row

\* save() of a row
Save(t) ==
    /\ Held(t)
    /\ writes < MaxWrites
    /\ writes' = writes + 1
    /\ LET o == RowSave(Target(t), sheet, table.attributes)
       IN  /\ Put(t, o.row)
           /\ sheet' = o.sheet
           /\ ops' = o.ops
    /\ last' = Called("save")
    /\ table' = table

\* delete() of a row
Delete(t) ==
    /\ Held(t)
    /\ writes < MaxWrites
    /\ writes' = writes + 1
    /\ LET o == RowDelete(Target(t), sheet)
       IN  /\ Put(t, o.row)
           /\ sheet' = o.sheet
           /\ ops' = o.ops
    /\ last' = Called("delete")
    /\ table' = table

\* update(obj) of a row
Update(t, obj) ==
    /\ Held(t)
    /\ writes < MaxWrites
    /\ writes' = writes + 1
    /\ LET o == RowUpdate(Target(t), obj, sheet, table.attributes)
       IN  /\ Put(t, o.row)
           /\ sheet' = o.sheet
           /\ ops' = o.ops
    /\ last' = Called("update")
    /\ table' = table

\* isPersisted() of a row
IsPersistedCall(t) ==
    /\ Held(t)
    /\ last' = [Called("isPersisted") EXCEPT
                    !.res = IF IsPersisted(Target(t)) THEN "true" ELSE "false"]
    /\ ops' = <<>>
    /\ UNCHANGED <<sheet, writes, table, coll, row>>

\* cellOf(key) of a row
CellOf(t, key) ==
    /\ Held(t)
    /\ LET o == RowCellOf(Target(t), key, table.attributes)
       IN  last' = [Called("cellOf") EXCEPT !.res = o.res, !.cell = o.cell]
    /\ ops' = <<>>
    /\ UNCHANGED <<sheet, writes, table, coll, row>>

\* keys passed to cellOf: the name of the first column, which a header may
\* repeat, and the name of a second column, which a header may lack
CellKeys == {"id", "name"}

Next ==
    \/ \E name \in SheetNames, cu \in BOOLEAN : BySheetName(name, cu)
    \/ All
    \/ \E obj \in Criteria : TableWhere(obj)
    \/ \E obj \in Criteria : TableAfter(obj)
    \/ \E obj \in Criteria : TableBefore(obj)
    \/ \E id \in Ids : Find(id)
    \/ \E obj \in CreateObjs : Create(obj)
    \/ \E obj \in Criteria : CollWhere(obj)
    \/ \E obj \in Criteria : CollAfter(obj)
    \/ \E obj \in Criteria : CollBefore(obj)
    \/ DeleteAll
    \/ \E obj \in UpdateObjs : UpdateAll(obj)
    \/ \E t \in 0..Len(coll) : Save(t)
    \/ \E t \in 0..Len(coll) : Delete(t)
    \/ \E t \in 0..Len(coll), obj \in UpdateObjs : Update(t, obj)

Spec == Init /\ [][Next]_vars

(***************************************************************************)
(* The program with the calls that only look at a row, isPersisted() and   *)
(* cellOf(key), over the sheets of two rows with texts in the first       *)
(* column: one of distinct column names, one of a repeated column name.    *)
(***************************************************************************)
RowSheets == {sh \in Sheets : Len(sh) = 3 /\ sh[2][1].t = "str"}

InitRow ==
    /\ sheet \in RowSheets
    /\ writes = 0
    /\ table = NoTable
    /\ coll = <<>>
    /\ row = <<>>
    /\ ops = <<>>
    /\ last = Called("init")

NextRow ==
    \/ Next
    \/ \E t \in 0..Len(coll) : IsPersistedCall(t)
    \/ \E t \in 0..Len(coll), key \in CellKeys : CellOf(t, key)

SpecRow == InitRow /\ [][NextRow]_vars

(***************************************************************************)
(* The program with a sheet that may throw during a batch call, over the   *)
(* sheet of three rows.                                                    *)
(***************************************************************************)
FailSheets == {sh \in Sheets : Len(sh) = 4}

InitFail ==
    /\ sheet \in FailSheets
    /\ writes = 0
    /\ table = NoTable
    /\ coll = <<>>
    /\ row = <<>>
    /\ ops = <<>>
    /\ last = Called("init")

NextFail ==
    \/ Next
    \/ \E n \in 1..Len(coll) : DeleteAllFails(n)
    \/ \E obj \in UpdateObjs, n \in 1..Len(coll) : UpdateAllFails(obj, n)

SpecFail == InitFail /\ [][NextFail]_vars

(***************************************************************************)
(* The queries on their own.  The table is constructed over a sheet of     *)
(* two columns and the caller holds the collection all() has returned;     *)
(* every query leaves what the caller holds where it is and gives its      *)
(* result in last.out.  The second column takes numbers, dates, texts,     *)
(* null and the empty text.                                                *)
(***************************************************************************)
MaxFilterRows == 2

FilterValues ==
    { Num(25), Num(30), Null, Empty, Date(1), Date(2), Str("b") }

FilterRows == { <<i, v>> : i \in Ids, v \in FilterValues }

RECURSIVE SheetsOfRows(_)
SheetsOfRows(n) ==
    IF n = 0 THEN { << <<Str("id"), Str("name")>> >> }
    ELSE LET shorter == SheetsOfRows(n - 1)
         IN  shorter \cup
                { Append(sh, r) : sh \in {x \in shorter : Len(x) = n},
                                  r \in FilterRows }

FilterSheets == SheetsOfRows(MaxFilterRows)

\* criteria passed to the queries: none, a number between, equal to and
\* below the numbers of the column, dates, texts, null, and two keys
FilterCriteria ==
    { NoFields,
      [NoFields EXCEPT !["name"] = Num(28)],
      [NoFields EXCEPT !["name"] = Num(30)],
      [NoFields EXCEPT !["name"] = Num(-1)],
      [NoFields EXCEPT !["name"] = Date(1)],
      [NoFields EXCEPT !["name"] = Date(2)],
      [NoFields EXCEPT !["name"] = Str("a")],
      [NoFields EXCEPT !["name"] = Str("b")],
      [NoFields EXCEPT !["name"] = Null],
      [NoFields EXCEPT !["id"] = Str("a"), !["name"] = Num(28)] }

\* the state after bySheetName(name, false) and all()
InitFilter ==
    /\ sheet \in FilterSheets
    /\ writes = 0
    /\ table = [exists |-> TRUE, checkUnique |-> FALSE,
                attributes |-> Attributes(Head(GetValues(sheet)))]
    /\ coll = Rows(sheet, table.attributes)
    /\ row = <<>>
    /\ ops = <<>>
    /\ last = Called("all")

\* all(), the result taken aside
CallAll ==
    /\ last' = [Called("all") EXCEPT !.out = Rows(sheet, table.attributes)]
    /\ ops' = <<>>
    /\ UNCHANGED <<sheet, writes, table, coll, row>>

\* where(obj) of the table, the result taken aside
CallTableWhere(obj) ==
    /\ last' = [Called("where") EXCEPT
                    !.out = Where(Rows(sheet, table.attributes), obj)]
    /\ ops' = <<>>
    /\ UNCHANGED <<sheet, writes, table, coll, row>>

\* after(obj) of the table, the result taken aside
CallTableAfter(obj) ==
    /\ last' = [Called("after") EXCEPT
                    !.out = After(Rows(sheet, table.attributes), obj)]
    /\ ops' = <<>>
    /\ UNCHANGED <<sheet, writes, table, coll, row>>

\* before(obj) of the table, the result taken aside
CallTableBefore(obj) ==
    /\ last' = [Called("before") EXCEPT
                    !.out = Before(Rows(sheet, table.attributes), obj)]
    /\ ops' = <<>>
    /\ UNCHANGED <<sheet, writes, table, coll, row>>

\* find(id), the result taken aside
CallFind(id) ==
    /\ LET rows == FindMatches(sheet, table.attributes, id)
       IN  last' = IF Len(rows) > 1
                   THEN [Called("find") EXCEPT !.res = "Ambiguous"]
                   ELSE IF Len(rows) = 0
                   THEN [Called("find") EXCEPT !.res = "NotFound"]
                   ELSE [Called("find") EXCEPT !.out = <<rows[1]>>]
    /\ ops' = <<>>
    /\ UNCHANGED <<sheet, writes, table, coll, row>>

\* where(obj) of the collection the caller holds
CallWhere(obj) ==
    /\ LET o == CollWhereCall(coll, obj)
       IN  /\ coll' = o.coll
           /\ last' = [Called("coll.where") EXCEPT !.out = o.out]
    /\ ops' = <<>>
    /\ UNCHANGED <<sheet, writes, table, row>>

\* after(obj) of the collection the caller holds
CallAfter(obj) ==
    /\ LET o == CollAfterCall(coll, obj)
       IN  /\ coll' = o.coll
           /\ last' = [Called("coll.after") EXCEPT !.out = o.out]
    /\ ops' = <<>>
    /\ UNCHANGED <<sheet, writes, table, row>>

\* before(obj) of the collection the caller holds
CallBefore(obj) ==
    /\ LET o == CollBeforeCall(coll, obj)
       IN  /\ coll' = o.coll
           /\ last' = [Called("coll.before") EXCEPT !.out = o.out]
    /\ ops' = <<>>
    /\ UNCHANGED <<sheet, writes, table, row>>

NextFilter ==
    \/ CallAll
    \/ \E obj \in FilterCriteria : CallTableWhere(obj)
    \/ \E obj \in FilterCriteria : CallTableAfter(obj)
    \/ \E obj \in FilterCriteria : CallTableBefore(obj)
    \/ \E id \in Ids : CallFind(id)
    \/ \E obj \in FilterCriteria : CallWhere(obj)
    \/ \E obj \in FilterCriteria : CallAfter(obj)
    \/ \E obj \in FilterCriteria : CallBefore(obj)
    \/ \E t \in 1..Len(coll) : IsPersistedCall(t)

SpecFilter == InitFilter /\ [][NextFilter]_vars

(***************************************************************************)
(* Properties                                                              *)
(***************************************************************************)
\* the row numbers of the members of a collection that have one, in
\* collection order
PersistedHandles(c) ==
    LET held == SelectSeq(c, LAMBDA r : r.rowNumber # NullRowNumber)
    IN  [i \in 1..Len(held) |-> held[i].rowNumber]

\* C1: deleteAll() calls deleteRow once for every member that has a row
\* number, and in the reverse of the collection order: for handles
\* p1, ..., pn it calls deleteRow(pn), ..., deleteRow(p1) and nothing else.
C1_DeleteAllReverseOrder ==
    [][last'.op = "deleteAll" =>
        LET ph == PersistedHandles(coll)
            n  == Len(ph)
        IN  ops' = [k \in 1..n |-> [op |-> "deleteRow", at |-> ph[n + 1 - k]]]
      ]_vars

\* a deleteAll() on three members, one of them already deleted, has called
\* deleteRow twice, the greater row number first
C1_Witness ==
    /\ last.op = "deleteAll"
    /\ Len(coll) = 3
    /\ Len(ops) = 2
    /\ ops[1].at > ops[2].at

\* the sheet after the first k calls of a log of deleteRow calls
RECURSIVE ReplayDeletes(_, _, _)
ReplayDeletes(sh, log, k) ==
    IF k = 0 THEN sh
    ELSE DeleteRow(ReplayDeletes(sh, log, k - 1), log[k].at)

\* the rows of a sheet at the positions outside a set, in their order
RowsOutside(sh, gone) ==
    LET idx == SelectSeq([i \in 1..Len(sh) |-> i], LAMBDA i : i \notin gone)
    IN  [j \in 1..Len(idx) |-> sh[idx[j]]]

\* C2: when deleteAll() is called on the collection a read of the table has
\* just returned, every member is deleted at a moment when its row number
\* still addresses the row it was read from; afterwards the sheet holds the
\* header and exactly the rows that were not members, in their order.
C2_DeleteAllKeepsHandlesValid ==
    [][(last.op \in {"all", "where", "after", "before"}
        /\ last'.op = "deleteAll") =>
        LET n == Len(coll)
        IN  /\ Len(ops') = n
            /\ \A k \in 1..n :
                 LET m == coll[n + 1 - k]
                     before == ReplayDeletes(sheet, ops', k - 1)
                 IN  /\ ops'[k].at = m.rowNumber
                     /\ m.rowNumber \in 2..Len(before)
                     /\ before[m.rowNumber] = sheet[m.rowNumber]
                     /\ m.f = AssignFields(table.attributes,
                                           sheet[m.rowNumber],
                                           Len(table.attributes))
            /\ sheet' = RowsOutside(sheet,
                                    {coll[i].rowNumber : i \in 1..n})
            /\ sheet'[1] = sheet[1]
      ]_vars

\* a deleteAll() as the first mutating call has deleted two rows and left
\* the row that lay between them
C2_Witness ==
    /\ last.op = "deleteAll"
    /\ writes = 1
    /\ Len(ops) = 2
    /\ Len(sheet) = 2
    /\ sheet[2] = <<Str("b"), Empty>>

\* the row a row-level call is made on, after the call
TargetAfter(t) == IF t = 0 THEN row'[1] ELSE coll'[t]

\* a save(), update(obj) or delete() on the row that is target t
MutationOn(t) ==
    \/ Save(t)
    \/ Delete(t)
    \/ \E obj \in UpdateObjs : Update(t, obj)

\* C3 as stated: no call on a row after its delete() changes the sheet or
\* calls it.
C3_NoOpAfterDelete ==
    [][\A t \in 0..Len(coll) :
         (/\ last'.op \in {"save", "update", "delete"}
          /\ Held(t) /\ ~IsPersisted(Target(t)) /\ MutationOn(t))
            => (ops' = <<>> /\ sheet' = sheet)
      ]_vars

\* C3 as amended: after delete() the row has no row number and keeps none;
\* update(obj) and delete() then neither change nor call the sheet, while
\* save() appends one row, as it does for any row without a row number.
C3_AfterDelete ==
    [][\A t \in 0..Len(coll) :
         (/\ last'.op \in {"save", "update", "delete"}
          /\ Held(t) /\ ~IsPersisted(Target(t))) =>
            /\ MutationOn(t) => ~IsPersisted(TargetAfter(t))
            /\ (Delete(t) \/ \E obj \in UpdateObjs : Update(t, obj))
                  => (ops' = <<>> /\ sheet' = sheet)
            /\ Save(t) =>
                  /\ Len(ops') = 1 /\ ops'[1].op = "appendRow"
                  /\ Len(sheet') = Len(sheet) + 1
                  /\ SubSeq(sheet', 1, Len(sheet)) = sheet
      ]_vars

\* an update(obj) has been made on a deleted row and the sheet was not
\* called
C3_Witness ==
    /\ last.op = "update"
    /\ ops = <<>>
    /\ writes = 2

\* C4: delete() on a row with row number p calls deleteRow(p) once and
\* leaves the row without a row number; delete() on a row without a row
\* number, such as a second delete(), calls nothing and changes nothing in
\* the sheet.
C4_DeleteIdempotent ==
    [][\A t \in 0..Len(coll) :
         (last'.op = "delete" /\ Held(t) /\ Delete(t)) =>
            /\ ~IsPersisted(TargetAfter(t))
            /\ IF IsPersisted(Target(t))
               THEN ops' = <<[op |-> "deleteRow",
                              at |-> Target(t).rowNumber]>>
               ELSE ops' = <<>> /\ sheet' = sheet
      ]_vars

\* a second delete() has been made on a row and the sheet was not called
C4_Witness ==
    /\ last.op = "delete"
    /\ ops = <<>>
    /\ writes = 2
    /\ \E t \in 0..Len(coll) : Held(t) /\ ~IsPersisted(Target(t))

\* two data rows hold the same value in the first column
KeyOccursTwice(sh) ==
    \E i, j \in 2..Len(sh) : i # j /\ sh[i][1] = sh[j][1]

\* C5: bySheetName fails with the duplicate-key error exactly when
\* checkUnique is set and a value of the first column occurs in two data
\* rows; it never writes to the sheet.
C5_DuplicateKeyError ==
    [][\A cu \in BOOLEAN :
         (last'.op = "bySheetName" /\ BySheetName(ExistingSheet, cu)) =>
            /\ (last'.res = "DuplicateKey") <=> (cu /\ KeyOccursTwice(sheet))
            /\ (last'.res # "DuplicateKey") => table'.exists
            /\ sheet' = sheet /\ ops' = <<>>
      ]_vars

\* the positions of the data rows whose first cell is strictly equal to id
RowsKeyed(sh, id) == {i \in 2..Len(sh) : StrictEq(sh[i][1], id)}

\* C6: find(id) returns the row object of the one data row whose first
\* cell is id, fails with not-found when there is none, and fails with
\* ambiguous-key when there are several.
C6_FindOutcomes ==
    [][\A id \in Ids :
         (last'.op = "find" /\ Find(id)) =>
            LET m == RowsKeyed(sheet, id)
            IN  /\ Cardinality(m) = 0 => last'.res = "NotFound"
                /\ Cardinality(m) > 1 => last'.res = "Ambiguous"
                /\ Cardinality(m) = 1 =>
                      /\ last'.res = "ok"
                      /\ \A i \in m : row'[1].rowNumber = i
      ]_vars

\* C7: a table built with checkUnique does not check the first column
\* again: create(obj) appends its row, and update(obj) writes its row, also
\* when the value they put in the first column is already there, so that
\* the first column then holds the value twice.
C7_UniquenessNotRevalidated ==
    [][(/\ last'.op \in {"create", "update"}
        /\ table.exists /\ table.checkUnique) =>
         /\ \A obj \in CreateObjs :
              (Create(obj) /\ \E i \in 2..Len(sheet) : sheet[i][1] = obj[sheet[1][1].s])
                 => /\ last'.res = "ok"
                    /\ Len(sheet') = Len(sheet) + 1
                    /\ sheet'[Len(sheet')][1] = obj[sheet[1][1].s]
                    /\ KeyOccursTwice(sheet')
         /\ \A t \in 0..Len(coll), obj \in UpdateObjs :
              (/\ Held(t) /\ IsPersisted(Target(t)) /\ Update(t, obj)
               /\ \E i \in 2..Len(sheet) :
                     i # Target(t).rowNumber /\ sheet[i][1] = obj[sheet[1][1].s])
                 => /\ last'.res = "ok"
                    /\ sheet'[Target(t).rowNumber][1] = obj[sheet[1][1].s]
                    /\ KeyOccursTwice(sheet')
      ]_vars

\* on a table built with checkUnique, after a mutating call, find has
\* failed with the ambiguous-key error
C7_Witness ==
    /\ table.exists /\ table.checkUnique
    /\ writes >= 1
    /\ last.op = "find" /\ last.res = "Ambiguous"
    /\ ~KeyOccursTwice(SubSeq(sheet, 1, Len(sheet) - 1))
    /\ KeyOccursTwice(sheet)

\* C8: all() returns one row object per data row of the sheet, in order,
\* the i-th with row number i + 1 and with, under the name of every column,
\* the cell of that column.
C8_AllReflectsSheet ==
    [][last'.op = "all" =>
         /\ Len(coll') = Len(sheet) - 1
         /\ \A i \in 1..Len(coll') :
              /\ coll'[i].rowNumber = i + 1
              /\ \A c \in 1..Len(sheet[1]) :
                    coll'[i].f[sheet[1][c].s] = sheet[i + 1][c]
      ]_vars

\* the value create and save put in the column of a name: the field of
\* that name, or the empty text when the field is absent or null
Provided(obj, name) == obj[name].t \notin {"undef", "null"}

ExpectedValues(sh, obj) ==
    [c \in 1..Len(sh[1]) |->
        IF Provided(obj, sh[1][c].s) THEN obj[sh[1][c].s] ELSE Empty]

\* C9: create(obj) appends one row, which holds in every column the value
\* obj gives under the name of the column, or the empty text when it gives
\* none; keys of obj that name no column add nothing, and the rows already
\* in the sheet stay as they are.
C9_CreateAppendsRow ==
    [][\A obj \in CreateObjs :
         (last'.op = "create" /\ Create(obj)) =>
            /\ sheet' = Append(sheet, ExpectedValues(sheet, obj))
            /\ Len(ops') = 1 /\ ops'[1].op = "appendRow"
      ]_vars

\* create has appended the row <<"b", "">> for an object that gives the
\* key "b", a null name and a key that is no column
C9_Witness ==
    /\ last.op = "create"
    /\ sheet[1] = <<Str("id"), Str("name")>>
    /\ Len(sheet) >= 3
    /\ sheet[Len(sheet)] = <<Str("b"), Empty>>

\* C10: save() on a row without a row number appends one row made of the
\* row's fields and leaves the row without a row number, so that a later
\* save() appends again and an update(obj) writes nothing; save() on a row
\* with row number p writes the row's fields to row p, leaves every other
\* row as it is and appends nothing.
C10_Save ==
    [][\A t \in 0..Len(coll) :
         (last'.op \in {"save", "update"} /\ Held(t)) =>
            LET r == Target(t)
                values == ExpectedValues(sheet, r.f)
                p == r.rowNumber
            IN  /\ Save(t) =>
                     /\ TargetAfter(t) = r
                     /\ IF p = NullRowNumber
                        THEN /\ sheet' = Append(sheet, values)
                             /\ Len(ops') = 1 /\ ops'[1].op = "appendRow"
                        ELSE /\ ops' = <<[op |-> "setValues", at |-> p]>>
                             /\ sheet'[p] = values
                             /\ \A i \in 1..Len(sheet) :
                                   i # p => sheet'[i] = sheet[i]
                /\ (p = NullRowNumber /\ \E obj \in UpdateObjs : Update(t, obj))
                      => (ops' = <<>> /\ sheet' = sheet)
      ]_vars

\* save() on a row without a row number has appended a row, and the row
\* still has no row number
C10_Witness ==
    /\ last.op = "save"
    /\ Len(ops) = 1 /\ ops[1].op = "appendRow"
    /\ \E t \in 0..Len(coll) :
          /\ Held(t) /\ ~IsPersisted(Target(t))
          /\ sheet[Len(sheet)] = ExpectedValues(sheet, Target(t).f)

\* what update(obj) on the row t does: the row holds the values of obj over
\* its own, keeps its row number p and, when it has one, row p of the sheet
\* is written from the merged fields, every column (the empty text for a
\* missing field), the other rows staying as they are; the number of rows
\* is compared when anyHandle is TRUE or row p is in the sheet
UpdateEffect(t, obj, anyHandle) ==
    LET r == Target(t)
        p == r.rowNumber
        merged == [k \in FieldNames |->
                     IF Provided(obj, k) \/ obj[k] = Null
                     THEN obj[k] ELSE r.f[k]]
        values == ExpectedValues(sheet, merged)
    IN  /\ TargetAfter(t) = [rowNumber |-> p, f |-> merged]
        /\ IF p # NullRowNumber
           THEN /\ ops' = <<[op |-> "setValues", at |-> p]>>
                /\ sheet'[p] = values
                /\ \A i \in 1..Len(sheet) : i # p => sheet'[i] = sheet[i]
                /\ (anyHandle \/ p <= Len(sheet)) => Len(sheet') = Len(sheet)
           ELSE ops' = <<>> /\ sheet' = sheet

\* C11 as stated: update(obj) merges obj into the fields of the row; on a
\* row with row number p it then writes exactly row p from the merged
\* fields and leaves the number of rows and every other row unchanged,
\* whatever p is; on a row without a row number it merges and does not call
\* the sheet.
C11_UpdateKeepsRowCount ==
    [][\A t \in 0..Len(coll), obj \in UpdateObjs :
         (last'.op = "update" /\ Held(t) /\ Update(t, obj))
            => UpdateEffect(t, obj, TRUE)
      ]_vars

\* C11: update(obj) merges obj into the fields of the row; on a row with
\* row number p it then writes row p, every column from the merged fields
\* (the empty text for a missing one), and leaves every other row as it is
\* and, when row p is a row of the sheet, the number of rows too; on a row
\* without a row number it merges the same and does not call the sheet.
C11_Update ==
    [][\A t \in 0..Len(coll), obj \in UpdateObjs :
         (last'.op = "update" /\ Held(t) /\ Update(t, obj))
            => UpdateEffect(t, obj, FALSE)
      ]_vars

\* update(obj) with the key "b" and a null name has been made on a row that
\* was read with another key and a name: the row holds the null, its row of
\* the sheet the empty text
C11_Witness ==
    /\ last.op = "update"
    /\ Len(ops) = 1 /\ ops[1].op = "setValues"
    /\ sheet[1] = <<Str("id"), Str("name")>>
    /\ ops[1].at <= Len(sheet)
    /\ sheet[ops[1].at] = <<Str("b"), Empty>>
    /\ \E t \in 0..Len(coll) :
          /\ Held(t)
          /\ Target(t).rowNumber = ops[1].at
          /\ Target(t).f["name"] = Null

\* the deleteRow calls deleteAll() makes for a sequence of members
DeleteCalls(c) ==
    LET ph == PersistedHandles(c)
    IN  [k \in 1..Len(ph) |-> [op |-> "deleteRow", at |-> ph[k]]]

\* the setValues calls updateAll(obj) makes for a sequence of members
UpdateCalls(c) ==
    LET ph == PersistedHandles(c)
    IN  [k \in 1..Len(ph) |-> [op |-> "setValues", at |-> ph[k]]]

\* C12: when the sheet throws during deleteAll() or updateAll(obj) at the
\* call made for one member, the caller gets that error, the calls logged
\* are exactly those of the members processed before it (the reverse of the
\* collection order for deleteAll, the collection order for updateAll), the
\* sheet is the sheet after those calls, and the members after it are as
\* they were: no call is made for them.
C12_BatchHaltsOnFailure ==
    [][/\ \A n \in 1..Len(coll) :
            (last'.op = "deleteAll" /\ DeleteAllFails(n)) =>
               LET rev == Reverse(coll)
                   log == DeleteCalls(SubSeq(rev, 1, n - 1))
               IN  /\ last'.res = "StoreError"
                   /\ ops' = log
                   /\ sheet' = ReplayDeletes(sheet, log, Len(log))
                   /\ Len(coll') = Len(coll)
                   /\ \A i \in n..Len(rev) : coll'[i] = rev[i]
       /\ \A n \in 1..Len(coll), obj \in UpdateObjs :
            (last'.op = "updateAll" /\ UpdateAllFails(obj, n)) =>
               LET log == UpdateCalls(SubSeq(coll, 1, n - 1))
                   written == {log[k].at : k \in 1..Len(log)}
               IN  /\ last'.res = "StoreError"
                   /\ ops' = log
                   /\ \A i \in 1..(n - 1) :
                         IsPersisted(coll[i]) =>
                            sheet'[coll[i].rowNumber]
                               = ExpectedValues(sheet, coll'[i].f)
                   /\ \A p \in 1..Len(sheet) :
                         p \notin written => sheet'[p] = sheet[p]
                   /\ Len(coll') = Len(coll)
                   /\ \A i \in (n + 1)..Len(coll) : coll'[i] = coll[i]
      ]_vars

\* a deleteAll() on the three rows read from a sheet has failed at the
\* second deleteRow: the last row of the sheet is deleted and its member has
\* no row number, the two other rows are in the sheet and their members
\* keep their row numbers
C12_Witness ==
    /\ last.op = "deleteAll" /\ last.res = "StoreError"
    /\ ops = <<[op |-> "deleteRow", at |-> 4]>>
    /\ Len(sheet) = 3
    /\ Len(coll) = 3
    /\ coll[1].rowNumber = NullRowNumber
    /\ coll[2].rowNumber = 3
    /\ coll[3].rowNumber = 2

\* the keys a criteria object gives a value for
Given(obj) == {k \in FieldNames : obj[k].t # "undef"}

\* the members of a sequence of rows
Members(c) == {c[i] : i \in 1..Len(c)}

\* C13: where(obj) of a collection returns the rows of the collection whose
\* value under every key of obj is the value of obj, two dates being the
\* same value when they are the same instant, in the order of the
\* collection; with no key it returns every row.
C13_WhereEquality ==
    [][\A obj \in FilterCriteria :
         (last'.op = "coll.where" /\ CallWhere(obj)) =>
            /\ last'.out = SelectSeq(coll,
                  LAMBDA r : \A k \in Given(obj) :
                     /\ r.f[k].t = obj[k].t
                     /\ r.f[k].s = obj[k].s
                     /\ r.f[k].n = obj[k].n)
            /\ Given(obj) = {} => last'.out = coll
      ]_vars

\* where(obj) has returned the row of a date and left out the row of
\* another date
C13_Witness ==
    /\ last.op = "coll.where"
    /\ Len(coll) = 2
    /\ coll[1].f["name"] = Date(2)
    /\ coll[2].f["name"] = Date(1)
    /\ last.out = <<coll[2]>>

\* a row whose value under every key of obj is not empty and of the type of
\* the value of obj, a number, a text or a date
Comparable(r, obj) ==
    \A k \in Given(obj) :
        /\ obj[k].t \in {"num", "str", "date"}
        /\ r.f[k].t = obj[k].t
        /\ r.f[k] # Empty

\* a above b in the order of their type
Above(a, b) ==
    IF a.t = "str" THEN StrRank(a.s) > StrRank(b.s) ELSE a.n > b.n

\* C14: among the rows whose values are not empty and of the type of the
\* thresholds, after(obj) returns those whose value is above the threshold
\* under every key and before(obj) those whose value is below it, in the
\* order of the collection; a row with a value equal to the threshold is in
\* neither.
C14_StrictComparison ==
    [][\A obj \in FilterCriteria :
         LET fit == SelectSeq(coll, LAMBDA r : Comparable(r, obj))
         IN  /\ (last'.op = "coll.after" /\ CallAfter(obj)) =>
                   SelectSeq(last'.out, LAMBDA r : Comparable(r, obj))
                      = SelectSeq(fit, LAMBDA r :
                           \A k \in Given(obj) : Above(r.f[k], obj[k]))
             /\ (last'.op = "coll.before" /\ CallBefore(obj)) =>
                   SelectSeq(last'.out, LAMBDA r : Comparable(r, obj))
                      = SelectSeq(fit, LAMBDA r :
                           \A k \in Given(obj) : Above(obj[k], r.f[k]))
      ]_vars

\* after(obj) on the rows of 25 and 30 has returned the row of 30 alone
C14_Witness ==
    /\ last.op = "coll.after"
    /\ Len(coll) = 2
    /\ coll[1].f["name"] = Num(25)
    /\ coll[2].f["name"] = Num(30)
    /\ last.out = <<coll[2]>>

\* C15: before(obj) returns no row whose value under a key of obj is null
\* or the empty text, whatever the threshold; after(obj) has no such rule:
\* a row whose values under the keys of obj are null or the empty text, which
\* compare as the number 0, is returned exactly when every threshold is a
\* number or a date below 0.
C15_BeforeExcludesEmpty ==
    [][\A obj \in FilterCriteria :
         /\ (last'.op = "coll.before" /\ CallBefore(obj)) =>
               \A r \in Members(last'.out), k \in Given(obj) :
                   r.f[k] \notin {Null, Empty}
         /\ (last'.op = "coll.after" /\ CallAfter(obj)) =>
               \A r \in Members(coll) :
                   (\A k \in Given(obj) : r.f[k] \in {Null, Empty}) =>
                      (r \in Members(last'.out) <=>
                         \A k \in Given(obj) :
                            /\ obj[k].t \in {"num", "date"}
                            /\ obj[k].n < 0)
      ]_vars

\* after(obj) has returned a row whose value is null and left out another
\* row
C15_Witness ==
    /\ last.op = "coll.after"
    /\ Len(last.out) < Len(coll)
    /\ \E r \in Members(last.out) : r.f["name"] = Null

\* the calls that read
ReadCalls ==
    { "all", "where", "after", "before", "find",
      "coll.where", "coll.after", "coll.before", "isPersisted" }

\* C19: all, where, after, before and find of the table, find when it
\* throws too, where, after and before of a collection, and isPersisted
\* call neither appendRow nor setValues nor deleteRow and leave the sheet,
\* the collection the caller holds (members, order, row numbers) and the
\* row the caller holds as they are.
C19_ReadsChangeNothing ==
    [][last'.op \in ReadCalls =>
          /\ ops' = <<>>
          /\ sheet' = sheet
          /\ coll' = coll
          /\ row' = row
      ]_vars

\* before(obj) has returned one of the two rows of the collection, which
\* still has both, as the sheet has
C19_Witness ==
    /\ last.op = "coll.before"
    /\ Len(coll) = 2
    /\ Len(last.out) = 1
    /\ Len(sheet) = 3

\* the columns of a header that have a name
ColumnsNamed(header, name) ==
    {c \in 1..Len(header) : header[c].s = name}

\* the leftmost column of a header that has a name
Leftmost(header, name) ==
    CHOOSE c \in ColumnsNamed(header, name) :
        \A d \in ColumnsNamed(header, name) : c <= d

\* C16: cellOf(key) on a row without a row number, a deleted row too,
\* throws the state error and asks the sheet for no cell; on a row with row
\* number p it resolves the cell of row p in a column that has the name
\* key; in both cases the sheet and the rows stay as they are and no
\* appendRow, setValues or deleteRow is called.
C16_CellOf ==
    [][\A t \in 0..Len(coll), key \in CellKeys :
         (last'.op = "cellOf" /\ Held(t) /\ CellOf(t, key)) =>
            LET p == Target(t).rowNumber
            IN  /\ ops' = <<>>
                /\ sheet' = sheet
                /\ coll' = coll
                /\ row' = row
                /\ IF p = NullRowNumber
                   THEN last'.res = "StateError" /\ last'.cell = NoCell
                   ELSE /\ last'.res = "ok"
                        /\ last'.cell[1] = p
                        /\ ColumnsNamed(sheet[1], key) # {}
                              => last'.cell[2] \in ColumnsNamed(sheet[1], key)
      ]_vars

\* cellOf(key) has thrown the state error on a row that was deleted
C16_Witness ==
    /\ last.op = "cellOf" /\ last.res = "StateError"
    /\ Len(sheet) = 2
    /\ \E t \in 0..Len(coll) :
          /\ Held(t)
          /\ ~IsPersisted(Target(t))
          /\ Target(t).f["id"] \notin {s[1] : s \in Members(Tail(sheet))}

\* C17: when the header has a name more than once, the leftmost column of
\* that name wins in every lookup by name: the field a row read by all()
\* has under the name is the cell of the leftmost such column, and
\* cellOf(name) resolves the leftmost such column.
C17_LeftmostColumnWins ==
    [][/\ last'.op = "all" =>
            \A i \in 1..Len(coll'), c \in 1..Len(sheet[1]) :
               LET name == sheet[1][c].s
               IN  coll'[i].f[name]
                      = sheet[coll'[i].rowNumber][Leftmost(sheet[1], name)]
       /\ \A t \in 0..Len(coll), key \in CellKeys :
            (last'.op = "cellOf" /\ last'.res = "ok"
             /\ Held(t) /\ CellOf(t, key)
             /\ ColumnsNamed(sheet[1], key) # {})
                => last'.cell[2] = Leftmost(sheet[1], key)
      ]_vars

\* the calls on a row or on the table that neither delete nor return rows
KeepingCalls ==
    { "save", "update", "cellOf", "isPersisted", "updateAll", "create",
      "bySheetName" }

\* the row numbers of the members of a collection, in order
Handles(c) == [i \in 1..Len(c) |-> c[i].rowNumber]

\* C18: the row number of a row changes only by delete(): save(),
\* update(obj), cellOf(key), isPersisted() and updateAll(obj) leave the row
\* number of every row the caller holds as it is; where, after and before
\* of a collection return members of the collection with the row numbers
\* they have; delete() leaves every row number as it is or null;
\* deleteAll() leaves every member without a row number.
C18_HandleChangesOnlyByDelete ==
    [][/\ last'.op \in KeepingCalls =>
            /\ Handles(coll') = Handles(coll)
            /\ Handles(row') = Handles(row)
       /\ last'.op \in {"coll.where", "coll.after", "coll.before"} =>
            /\ Members(coll') \subseteq Members(coll)
            /\ row' = row
       /\ last'.op = "delete" =>
            /\ Len(coll') = Len(coll) /\ Len(row') = Len(row)
            /\ \A i \in 1..Len(coll) :
                  coll'[i].rowNumber \in {coll[i].rowNumber, NullRowNumber}
            /\ \A i \in 1..Len(row) :
                  row'[i].rowNumber \in {row[i].rowNumber, NullRowNumber}
       /\ last'.op = "deleteAll" =>
            /\ Len(coll') = Len(coll)
            /\ \A i \in 1..Len(coll') : coll'[i].rowNumber = NullRowNumber
            /\ Handles(row') = Handles(row)
      ]_vars

\* updateAll(obj) has been called on a collection with a deleted member
\* and a member read from row 3: both are as they were, without a row
\* number and with row number 3
C18_Witness ==
    /\ last.op = "updateAll"
    /\ Len(coll) = 2
    /\ coll[1].rowNumber = NullRowNumber
    /\ coll[2].rowNumber = 3
    /\ Len(ops) = 1 /\ ops[1].op = "setValues" /\ ops[1].at = 3

====
